---- MODULE Spec2Model ----
(***************************************************************************)
(* Model of the gesture-driven solar system:                               *)
(*   src/components/HandController.tsx  (camera loop, fist classifier)     *)
(*   src/components/SolarSystem.tsx     (scene, frame loop, App)           *)
(*                                                                         *)
(* Numbers.  JavaScript numbers are modelled in fixed point:               *)
(*   - scales, positions, opacities, sines and cosines: integers in units  *)
(*     of 10^-6 (One = 1.0);                                               *)
(*   - angles: integers in units of 10^-4 rad (every p.speed*speedFactor   *)
(*     of the PLANETS table is a whole number of these);                   *)
(*   - rotations: integers in units of 10^-3 rad.                          *)
(* A division rounds down (\div), where the code rounds to the nearest     *)
(* double: the two differ by less than one unit of 10^-6.                  *)
(***************************************************************************)
EXTENDS Integers, Sequences, FiniteSets, TLC

\* ------------------------------------------------------------------ bounds
\* Frames the whole-application specification runs after the first one.
MaxFrames == 3
\* HandController instances mounted over a run (camera shown, hidden, shown...).
MaxMounts == 2
\* Initial-angle seeds: seed s gives planet i the angle s * i * AngleStride.
MaxSeed == 1
\* Frames of the scene-only specification, and prop changes it allows.
MaxHoldFrames == 48
MaxEmits == 2
\* Consecutive frames under one state after which convergence is claimed.
ConvFrames == 45

\* ------------------------------------------------------------ fixed point
One == 10^6
\* 0.25 rad between the initial angles of neighbouring planets, per seed.
AngleStride == 25 * 100

\* CONFIG.speedFactor = 0.3, in tenths.
speedFactor == 3

\* PLANETS: dist in scene units, speed in 10^-3 rad per frame.
PLANETS ==
  << [name |-> "Mercury", dist |-> 35,  speed |-> -40],
     [name |-> "Venus",   dist |-> 50,  speed |-> -15],
     [name |-> "Earth",   dist |-> 70,  speed |-> -10],
     [name |-> "Mars",    dist |-> 90,  speed |-> -8],
     [name |-> "Jupiter", dist |-> 130, speed |-> -4],
     [name |-> "Saturn",  dist |-> 170, speed |-> -3],
     [name |-> "Uranus",  dist |-> 210, speed |-> -2],
     [name |-> "Neptune", dist |-> 245, speed |-> -1] >>

Bodies == 1..Len(PLANETS)

\* a * b / One for fixed-point a, b >= 0, without leaving 32 bits.
MulFix(a, b) ==
  LET a1 == a \div 1000
      a0 == a % 1000
      b1 == b \div 1000
      b0 == b % 1000
  IN  a1 * b1 + (a1 * b0 + a0 * b1) \div 1000 + (a0 * b0) \div One

\* Math.PI in angle units (10^-4 rad).
MathPI == 31416

\* cos on the first quadrant, q in 0..MathPI/2 angle units: Taylor series.
CosQ(q) ==
  LET x  == q * 100
      y  == MulFix(x, x)
      h6 == One - y \div 132
      h5 == One - MulFix(y \div 90, h6)
      h4 == One - MulFix(y \div 56, h5)
      h3 == One - MulFix(y \div 30, h4)
      h2 == One - MulFix(y \div 12, h3)
  IN  One - MulFix(y \div 2, h2)

\* sin on the first quadrant.
SinQ(q) ==
  LET x  == q * 100
      y  == MulFix(x, x)
      h6 == One - y \div 156
      h5 == One - MulFix(y \div 110, h6)
      h4 == One - MulFix(y \div 72, h5)
      h3 == One - MulFix(y \div 42, h4)
      h2 == One - MulFix(y \div 20, h3)
      h1 == One - MulFix(y \div 6, h2)
  IN  MulFix(x, h1)

\* Math.cos(angle), angle in 10^-4 rad, result in 10^-6.
MathCos(angle) ==
  LET r == angle % (2 * MathPI)
      h == MathPI \div 2
  IN  IF r <= h THEN CosQ(r)
      ELSE IF r <= MathPI THEN -CosQ(MathPI - r)
      ELSE IF r <= MathPI + h THEN -CosQ(r - MathPI)
      ELSE CosQ(2 * MathPI - r)

\* Math.sin(angle).
MathSin(angle) ==
  LET r == angle % (2 * MathPI)
      h == MathPI \div 2
  IN  IF r <= h THEN SinQ(r)
      ELSE IF r <= MathPI THEN SinQ(MathPI - r)
      ELSE IF r <= MathPI + h THEN -SinQ(r - MathPI)
      ELSE -SinQ(2 * MathPI - r)

\* ------------------------------------------------------------------ state
VARIABLES
  handsAvailable,  \* HandController.tsx:16  the Hands class resolves
  cameraEnabled,   \* App: useState(true)
  systemState,     \* App: useState('normal'), the committed value
  pendingState,    \* App: the setSystemState update React has queued, or "none"
  systemStateRef,  \* SolarSystem: systemStateRef.current
  hc,              \* the HandController instances: detect loop, estimator
  mounts,          \* HandController instances created so far
  results,         \* the Results object of the last onResults call
  gesture,         \* the argument of the last onGestureChange call
  sceneMounted,    \* SolarSystem's scene effect has not been cleaned up
  sun,             \* sun.scale, sun.rotation.y, sunSprite.visible
  groups,          \* planetGroups: userData.angle, position, scale, mesh rotation
  orbitOpacity,    \* orbitMeshes[i].material.opacity
  isMerged,        \* animate's isMerged, as the last frame read it
  frames,          \* animate calls so far
  run,             \* consecutive frames (the last ones) that read the same state
  runFrom,         \* the sun and the groups as they were when that run began
  emits,           \* prop changes made in the scene-only specification
  textures,        \* the 2D context the scene was built with, and the textures made
  texel            \* the texel createPlanetTexture painted last: samples and colour

appVars   == <<cameraEnabled, systemState, pendingState, systemStateRef>>
handVars  == <<handsAvailable, hc, mounts, results, gesture>>
sceneVars == <<sceneMounted, sun, groups, orbitOpacity, isMerged, frames, run, runFrom>>
texVars   == <<textures, texel>>
vars      == <<appVars, handVars, sceneVars, emits, texVars>>

\* --------------------------------------------------------- SolarSystem.tsx
\* Mutant: the lerp copies the target (factor 1).
LerpSnap(x, v, inv) == v

\* Mutant: the lerp moves at half the factor.
LerpSlow(x, v, inv) == x + (v - x) \div (2 * inv)

\* Mutant: the lerp moves by twice the gap (factor 2).
LerpOvershoot(x, v, inv) == x + 2 * (v - x)

\* THREE.Vector3.lerp, one component: x += (v - x) * alpha, alpha = 1/inv.
Lerp(x, v, inv) == x + (v - x) \div inv

\* THREE.Vector3.lerp on a position.
LerpVec(p, v, inv) ==
  [x |-> Lerp(p.x, v.x, inv), y |-> Lerp(p.y, v.y, inv), z |-> Lerp(p.z, v.z, inv)]

\* THREE.MathUtils.lerp(x, y, t) = (1 - t) * x + t * y, t = 1/inv.
MathUtilsLerp(x, y, inv) == ((inv - 1) * x + y) \div inv

Origin == [x |-> 0, y |-> 0, z |-> 0]

\* Mutant: the speed factor forgotten (p.speed alone, in 10^-4 rad).
SpeedNoFactor(i) == PLANETS[i].speed * 10

\* userData.speed = p.speed * CONFIG.speedFactor, in 10^-4 rad per frame.
Speed(i) == PLANETS[i].speed * speedFactor

\* Mutant: the orbit tilted out of the plane (y a tenth of z).
OrbitPointTilted(i, angle) ==
  [x |-> MathCos(angle) * PLANETS[i].dist,
   y |-> (MathSin(angle) * PLANETS[i].dist) \div 10,
   z |-> MathSin(angle) * PLANETS[i].dist]

\* The orbit point of body i at an angle: (cos(angle) * dist, 0, sin(angle) * dist).
OrbitPoint(i, angle) ==
  [x |-> MathCos(angle) * PLANETS[i].dist, y |-> 0, z |-> MathSin(angle) * PLANETS[i].dist]

\* Math.random() * Math.PI * 2 for planet i, drawn from the seeds.
RandomAngle(seed, i) == seed * i * AngleStride

\* canvas.getContext('2d'): a drawing context, or null.
CanvasContexts == {"2d", "null"}

\* createPlanetTexture, its result: without a context an empty THREE.Texture,
\* with one the CanvasTexture of the painted canvas.
createPlanetTexture(ctx, name) == IF ctx = "null" THEN "Texture" ELSE "CanvasTexture"

\* Mutant: createGlowTexture without its null check: drawing on null throws.
createGlowTextureNoCheck(ctx) == IF ctx = "null" THEN "TypeError" ELSE "CanvasTexture"

\* createGlowTexture, its result.
createGlowTexture(ctx) == IF ctx = "null" THEN "Texture" ELSE "CanvasTexture"

\* createRingTexture, its result.
createRingTexture(ctx) == IF ctx = "null" THEN "Texture" ELSE "CanvasTexture"

\* The planets built with a ring (ring: true).
Ringed == {i \in Bodies : PLANETS[i].name = "Saturn"}

\* The textures scene construction makes: the sun sprite's glow, one map per
\* planet, one ring map per ringed planet.
BuildTextures(ctx) ==
  [ctx    |-> ctx,
   glow   |-> createGlowTexture(ctx),
   planet |-> [i \in Bodies |-> createPlanetTexture(ctx, PLANETS[i].name)],
   ring   |-> [i \in Ringed |-> createRingTexture(ctx)]]

\* Noise samples, in hundredths: noise3D returns values in [-1, 1].
NoiseSamples == {-100, -21, -20, 0, 15, 16, 20, 30, 31, 50, 51, 60, 100}

\* The planets whose texel rule the model paints, one per branch of the rule.
PaintedNames == {"Jupiter", "Earth", "Mars"}

\* Mars's base colour #c1440e, as fillRect leaves it in the image data.
MarsColour == <<193, 68, 14>>

\* Math.max(0, Math.min(255, v)).
Clamp255(v) == IF v < 0 THEN 0 ELSE IF v > 255 THEN 255 ELSE v

\* createPlanetTexture, Jupiter branch: bands from the second sample.
JupiterTexel(band) ==
  IF band > 30 THEN <<210, 180, 140>>
  ELSE IF band < -20 THEN <<160, 100, 60>>
  ELSE <<190, 150, 110>>

\* Mutant: land from the cut itself (>= 0.15).
EarthTexelLandAtCut(noiseVal, cloudNoise) ==
  LET base == IF noiseVal >= 15 THEN <<40, 140, 60>> ELSE <<10, 40, 120>>
  IN  IF cloudNoise > 50 THEN <<255, 255, 255>> ELSE base

\* createPlanetTexture, Earth branch: land or water, then clouds.
EarthTexel(noiseVal, cloudNoise) ==
  LET base == IF noiseVal > 15 THEN <<40, 140, 60>> ELSE <<10, 40, 120>>
  IN  IF cloudNoise > 50 THEN <<255, 255, 255>> ELSE base

\* createPlanetTexture, generic branch: every channel moved by noiseVal * 20
\* (a fifth of the sample in hundredths), clamped, rounded by the byte array.
GenericTexel(base, noiseVal) ==
  [c \in 1..3 |-> Clamp255(base[c] + (2 * noiseVal + 5) \div 10)]

\* The colour createPlanetTexture writes at one texel: noiseVal is the sample
\* at (nx*3, ny*3, 0), second the branch's other sample (band or cloud).
PlanetTexel(name, noiseVal, second) ==
  IF name = "Jupiter" THEN JupiterTexel(second)
  ELSE IF name = "Earth" THEN EarthTexel(noiseVal, second)
  ELSE GenericTexel(MarsColour, noiseVal)

\* No texel painted yet.
NoTexel == [name |-> "none", noiseVal |-> 0, second |-> 0, rgb |-> <<0, 0, 0>>]

\* A planet group as PLANETS.forEach builds it.  A scale is one number: every
\* scale vector starts (1,1,1) and is lerped toward a vector of equal components.
NewGroup(seed, i) ==
  [angle       |-> RandomAngle(seed, i),
   position    |-> OrbitPoint(i, RandomAngle(seed, i)),
   scale       |-> One,
   rotY        |-> 0,
   targetPos   |-> OrbitPoint(i, RandomAngle(seed, i)),
   targetScale |-> One]

\* The sun mesh and its glow sprite as built.
NewSun == [scale |-> One, rotY |-> 0, spriteVisible |-> TRUE, targetScale |-> One]

\* Mutant: the sun's scale lerped from its built value, not from the last one.
AnimateSunRestart(s, merged) ==
  LET targetSunScale == IF merged THEN One \div 1000 ELSE One
  IN  [scale         |-> Lerp(One, targetSunScale, 20),
       rotY          |-> s.rotY + 2,
       spriteVisible |-> ~merged,
       targetScale   |-> targetSunScale]

\* Mutant: the glow switched off under FIST and never switched on again.
AnimateSunGlowOff(s, merged) ==
  LET targetSunScale == IF merged THEN One \div 1000 ELSE One
  IN  [scale         |-> Lerp(s.scale, targetSunScale, 20),
       rotY          |-> s.rotY + 2,
       spriteVisible |-> s.spriteVisible /\ ~merged,
       targetScale   |-> targetSunScale]

\* animate, sun logic: rotation, scale toward 0.001 or 1, glow switched at once.
AnimateSun(s, merged) ==
  LET targetSunScale == IF merged THEN One \div 1000 ELSE One
  IN  [scale         |-> Lerp(s.scale, targetSunScale, 20),
       rotY          |-> s.rotY + 2,
       spriteVisible |-> ~merged,
       targetScale   |-> targetSunScale]

\* Mutant: Earth grown toward scale 12.
MergeEarthTwelve(g) ==
  [g EXCEPT !.targetPos   = Origin,
            !.position    = LerpVec(g.position, Origin, 20),
            !.targetScale = 12 * One,
            !.scale       = Lerp(g.scale, 12 * One, 20),
            !.rotY        = g.rotY + 20]

\* animate, planets logic, merged branch for Earth.
MergeEarth(g) ==
  [g EXCEPT !.targetPos   = Origin,
            !.position    = LerpVec(g.position, Origin, 20),
            !.targetScale = 6 * One,
            !.scale       = Lerp(g.scale, 6 * One, 20),
            !.rotY        = g.rotY + 20]

\* animate, planets logic, merged branch for the other bodies.
MergeOther(g) ==
  [g EXCEPT !.targetPos   = Origin,
            !.position    = LerpVec(g.position, Origin, 10),
            !.targetScale = One \div 1000,
            !.scale       = Lerp(g.scale, One \div 1000, 10)]

\* animate, planets logic, normal orbit branch.
OrbitStep(g, i) ==
  LET angle     == g.angle + Speed(i)
      targetPos == OrbitPoint(i, angle)
  IN  [g EXCEPT !.scale       = Lerp(g.scale, One, 20),
                !.targetScale = One,
                !.angle       = angle,
                !.targetPos   = targetPos,
                !.position    = LerpVec(g.position, targetPos, 20),
                !.rotY        = g.rotY + 5]

\* Mutant: Earth treated like the other bodies when merged.
AnimateGroupNoEarth(g, i, merged) ==
  IF merged THEN MergeOther(g) ELSE OrbitStep(g, i)

\* animate, planets logic: one planet group in one frame.
AnimateGroup(g, i, merged) ==
  IF merged
    THEN IF PLANETS[i].name = "Earth" THEN MergeEarth(g) ELSE MergeOther(g)
    ELSE OrbitStep(g, i)

\* Mutant: the orbits restored toward opacity 1 instead of 0.2.
AnimateOrbitOpaque(o, merged) ==
  LET targetOpacity == IF merged THEN 0 ELSE One
  IN  MathUtilsLerp(o, targetOpacity, 20)

\* animate, orbit meshes: opacity toward 0 or 0.2.
AnimateOrbit(o, merged) ==
  LET targetOpacity == IF merged THEN 0 ELSE One \div 5
  IN  MathUtilsLerp(o, targetOpacity, 20)

\* One call of animate, up to `limit` calls.  The request for the next frame is
\* the first statement, so a frame is always pending once the loop has started;
\* TWEEN.update, controls.update and composer.render touch no modelled state.
AnimateFrame(limit) ==
  /\ frames < limit
  /\ LET merged == systemStateRef = "merged"
     IN  /\ isMerged' = merged
         /\ sun' = AnimateSun(sun, merged)
         /\ groups' = [i \in Bodies |-> AnimateGroup(groups[i], i, merged)]
         /\ orbitOpacity' = AnimateOrbit(orbitOpacity, merged)
         /\ run' = IF merged = isMerged THEN run + 1 ELSE 1
         /\ runFrom' = IF merged = isMerged THEN runFrom ELSE [sun |-> sun, groups |-> groups]
  /\ frames' = frames + 1
  /\ UNCHANGED <<appVars, handVars, sceneMounted, emits, texVars>>

\* The cleanup of the scene effect: removes the resize listener and the canvas,
\* disposes the renderer.  It cancels no animation frame.
SceneCleanup == sceneMounted' = FALSE

\* -------------------------------------------------------------------- App
\* handleGestureChange: setSystemState(isFist ? 'merged' : 'normal').  React
\* queues the update; an unmounted App takes none.
HandleGestureChange(isFist) ==
  /\ gesture' = IF isFist THEN "FIST" ELSE "OPEN"
  /\ pendingState' = IF ~sceneMounted THEN pendingState
                     ELSE IF isFist THEN "merged" ELSE "normal"

\* React renders App with the queued update: SolarSystem gets the new prop.  The
\* passive effects of the commit before are flushed first, so the ref holds the
\* state that commit left.
CommitState ==
  /\ sceneMounted
  /\ pendingState # "none"
  /\ systemStateRef' = systemState
  /\ systemState' = pendingState
  /\ pendingState' = "none"
  /\ UNCHANGED <<cameraEnabled, handVars, sceneVars, emits, texVars>>

\* SolarSystem's effect on [systemState]: systemStateRef.current = systemState.
RefEffect ==
  /\ sceneMounted
  /\ systemStateRef # systemState
  /\ systemStateRef' = systemState
  /\ UNCHANGED <<cameraEnabled, systemState, pendingState, handVars, sceneVars, emits, texVars>>

\* ------------------------------------------------------ HandController.tsx
\* The landmarks the model carries: thumb tip 4, and PIP/tip of the four fingers.
LandmarkIdx == {4, 6, 8, 10, 12, 14, 16, 18, 20}

\* The y coordinates of the classifier's input grid: two values give every order
\* (above, level, below) between a tip and its PIP joint.
YValues == {0, 1}

NoLandmarks == [k \in LandmarkIdx |-> 0]

\* A Results object: multiHandLandmarks missing, empty, or one hand.  A hand is
\* its y values, the landmarks whose y is NaN (nan) and the landmarks whose
\* entry is undefined (absent).
NoResult(k) == [kind |-> k, y |-> NoLandmarks, nan |-> {}, absent |-> {}]

\* A well-formed hand with the y values l.
Hand(l) == [kind |-> "hand", y |-> l, nan |-> {}, absent |-> {}]

AllResults ==
  {NoResult(k) : k \in {"missing", "empty"}} \cup {Hand(l) : l \in [LandmarkIdx -> YValues]}

\* The hand with the first n of its four fingers curled, the rest stretched.
Curled(n) ==
  Hand([k \in LandmarkIdx |-> IF k \in {8, 12, 16, 20} /\ k <= 4 * n + 4 THEN 1 ELSE 0])

\* Hands the estimator is not meant to deliver: three fingers curled with the
\* index tip's entry undefined, or its y NaN; four fingers whose tips lie below
\* the image (y = 2) with the PIP joints above it (y = -1).
MalformedResults ==
  {[Curled(3) EXCEPT !.absent = {8}],
   [Curled(3) EXCEPT !.nan = {8}],
   Hand([k \in LandmarkIdx |-> IF k \in {8, 12, 16, 20} THEN 2 ELSE -1])}

\* The results the camera loop delivers in the whole-application specification.
CameraResults ==
  {NoResult("missing"), NoResult("empty"), Curled(2), Curled(3)} \cup MalformedResults

\* Mutant: a tip level with its PIP joint counts as closed (>=).
isFingerClosedOrLevel(landmarks, tipIdx, pipIdx) ==
  /\ tipIdx \notin landmarks.nan
  /\ pipIdx \notin landmarks.nan
  /\ landmarks.y[tipIdx] >= landmarks.y[pipIdx]

\* landmarks[tipIdx].y > landmarks[pipIdx].y in JavaScript: false when either
\* side is NaN.
isFingerClosed(landmarks, tipIdx, pipIdx) ==
  /\ tipIdx \notin landmarks.nan
  /\ pipIdx \notin landmarks.nan
  /\ landmarks.y[tipIdx] > landmarks.y[pipIdx]

\* closedFingers: index, middle, ring, pinky.
closedFingers(landmarks) ==
  (IF isFingerClosed(landmarks, 8, 6) THEN 1 ELSE 0)
    + (IF isFingerClosed(landmarks, 12, 10) THEN 1 ELSE 0)
    + (IF isFingerClosed(landmarks, 16, 14) THEN 1 ELSE 0)
    + (IF isFingerClosed(landmarks, 20, 18) THEN 1 ELSE 0)

\* Mutant: the threshold off by one (all four fingers needed).
isFistAllFour(landmarks) == closedFingers(landmarks) >= 4

\* Threshold: 3 or more fingers closed = Fist.
isFist(landmarks) == closedFingers(landmarks) >= 3

\* No hand in the results: multiHandLandmarks missing or of length 0.
NoHand(r) == r.kind \in {"missing", "empty"}

\* Mutant: a lost hand leaves the gesture as it was.
OnResultsKeep(r) ==
  /\ results' = r
  /\ IF NoHand(r) THEN UNCHANGED <<gesture, pendingState>>
     ELSE HandleGestureChange(isFist(r))

\* Mutant: hysteresis: once FIST, two closed fingers keep the fist.
OnResultsHysteresis(r) ==
  /\ results' = r
  /\ IF NoHand(r) THEN HandleGestureChange(FALSE)
     ELSE HandleGestureChange(isFist(r) \/ (gesture = "FIST" /\ closedFingers(r) >= 2))

\* landmarks[idx].y throws a TypeError when landmarks[idx] is undefined: the
\* four isFingerClosed calls read the tips and PIP joints, never the thumb.
Throws(r) == ~NoHand(r) /\ r.absent \cap {6, 8, 10, 12, 14, 16, 18, 20} # {}

\* onResults.  setDebugText only feeds the overlay text and is left out.  A
\* TypeError leaves onResults before it calls onGestureChange.
OnResults(r) ==
  /\ results' = r
  /\ IF NoHand(r) THEN HandleGestureChange(FALSE)
     ELSE IF Throws(r) THEN UNCHANGED <<gesture, pendingState>>
     ELSE HandleGestureChange(isFist(r))

\* A HandController that was never mounted.  rafs counts the pending
\* requestAnimationFrame(detect) callbacks, sends the hands.send calls that have
\* not settled.
NoController == [pc |-> "none", mounted |-> FALSE, closed |-> FALSE, rafs |-> 0, sends |-> 0]

\* Mutant: the mount effect without its HandsClass check.
MountControllerNoCheck ==
  [pc |-> "raf", mounted |-> TRUE, closed |-> FALSE, rafs |-> 1, sends |-> 0]

\* The mount effect: without the Hands class it returns at once (no loop, no
\* cleanup); with it, detect() runs: the video of a Webcam mounted in this commit
\* has no data yet, so the first call only requests a frame.
MountController ==
  [pc      |-> IF handsAvailable THEN "raf" ELSE "off",
   mounted |-> TRUE,
   closed  |-> FALSE,
   rafs    |-> IF handsAvailable THEN 1 ELSE 0,
   sends   |-> 0]

\* The effect's cleanup on unmount: cancelAnimationFrame(animationFrameId), then
\* hands.close().  animationFrameId names the last request made: while detect
\* awaits hands.send that request has already run, and cancelling it does nothing.
CleanupController(c) ==
  IF c.pc = "off" THEN [c EXCEPT !.mounted = FALSE]
  ELSE [pc      |-> IF c.pc = "raf" THEN "stopped" ELSE c.pc,
        mounted |-> FALSE,
        closed  |-> TRUE,
        rafs    |-> IF c.pc = "raf" THEN c.rafs - 1 ELSE c.rafs,
        sends   |-> c.sends]

\* Mutant: detect requests its next frame before the send, as animate does.
DetectEager(i) ==
  /\ hc[i].pc = "raf"
  /\ \E ready \in BOOLEAN :
       hc' = [hc EXCEPT ![i] =
                IF hc[i].mounted /\ ready
                  THEN [@ EXCEPT !.pc = "sending", !.sends = @ + 1]
                  ELSE @]
  /\ UNCHANGED <<appVars, handsAvailable, mounts, results, gesture, sceneVars, emits, texVars>>

\* detect, called by the animation frame: with a video that has data it sends the
\* image and awaits; otherwise it requests the next frame.  React clears
\* webcamRef.current when the component unmounts.
Detect(i) ==
  /\ hc[i].pc = "raf"
  /\ \E ready \in BOOLEAN :
       hc' = [hc EXCEPT ![i] =
                IF hc[i].mounted /\ ready
                  THEN [@ EXCEPT !.pc = "sending", !.rafs = @ - 1, !.sends = @ + 1]
                  ELSE [@ EXCEPT !.pc = "raf", !.rafs = (@ - 1) + 1]]
  /\ UNCHANGED <<appVars, handsAvailable, mounts, results, gesture, sceneVars, emits, texVars>>

\* The estimator calls onResults during a send.
SendDeliver(i) ==
  /\ hc[i].pc = "sending"
  /\ \E r \in CameraResults : OnResults(r)
  /\ hc' = [hc EXCEPT ![i].pc = "delivered"]
  /\ UNCHANGED <<cameraEnabled, systemState, systemStateRef, handsAvailable, mounts,
                 sceneVars, emits, texVars>>

\* Mutant: no try/catch around the send: a send that threw ends detect.
SendSettleNoCatch(i) ==
  /\ hc[i].pc \in {"sending", "delivered"}
  /\ hc' = [hc EXCEPT ![i] =
              IF hc[i].pc = "delivered" /\ Throws(results)
                THEN [@ EXCEPT !.pc = "stopped", !.sends = @ - 1]
                ELSE [@ EXCEPT !.pc = "raf", !.sends = @ - 1, !.rafs = @ + 1]]
  /\ UNCHANGED <<appVars, handsAvailable, mounts, results, gesture, sceneVars, emits, texVars>>

\* The awaited send settles, resolved or thrown and caught: detect requests the
\* next frame (line 53), whatever happened to the component meanwhile.
SendSettle(i) ==
  /\ hc[i].pc \in {"sending", "delivered"}
  /\ hc' = [hc EXCEPT ![i] = [@ EXCEPT !.pc = "raf", !.sends = @ - 1, !.rafs = @ + 1]]
  /\ UNCHANGED <<appVars, handsAvailable, mounts, results, gesture, sceneVars, emits, texVars>>

\* The camera button: setCameraEnabled(!cameraEnabled), rendered at once.
\* Hiding unmounts the HandController, showing mounts a new one.
ToggleCamera ==
  /\ sceneMounted
  /\ cameraEnabled' = ~cameraEnabled
  /\ IF cameraEnabled
       THEN /\ hc' = [hc EXCEPT ![mounts] = CleanupController(hc[mounts])]
            /\ mounts' = mounts
       ELSE /\ mounts < MaxMounts
            /\ mounts' = mounts + 1
            /\ hc' = [hc EXCEPT ![mounts + 1] = MountController]
  /\ UNCHANGED <<systemState, pendingState, systemStateRef, handsAvailable, results,
                 gesture, sceneVars, emits, texVars>>

\* The application is unmounted: HandController's cleanup (when the camera is
\* shown), then SolarSystem's scene cleanup.
Unmount ==
  /\ sceneMounted
  /\ SceneCleanup
  /\ hc' = IF cameraEnabled THEN [hc EXCEPT ![mounts] = CleanupController(hc[mounts])] ELSE hc
  /\ UNCHANGED <<appVars, handsAvailable, mounts, results, gesture, sun, groups,
                 orbitOpacity, isMerged, frames, run, runFrom, emits, texVars>>

\* ---------------------------------------------------------- specifications
\* The state after the first commit: App's initial state, the scene built and
\* animate() called once by the scene effect, the HandController mounted.
\* getContext('2d') gave the scene's canvases one of `contexts`.
InitWith(contexts) ==
  /\ handsAvailable \in BOOLEAN
  /\ cameraEnabled = TRUE
  /\ systemState = "normal"
  /\ pendingState = "none"
  /\ systemStateRef = "normal"
  /\ mounts = 1
  /\ hc = [i \in 1..MaxMounts |-> IF i = 1 THEN MountController ELSE NoController]
  /\ results = NoResult("none")
  /\ gesture = "none"
  /\ sceneMounted = TRUE
  /\ sun = AnimateSun(NewSun, FALSE)
  /\ \E seed \in 0..MaxSeed :
       /\ groups = [i \in Bodies |-> AnimateGroup(NewGroup(seed, i), i, FALSE)]
       /\ runFrom = [sun |-> NewSun, groups |-> [i \in Bodies |-> NewGroup(seed, i)]]
  /\ orbitOpacity = AnimateOrbit(One \div 5, FALSE)
  /\ isMerged = FALSE
  /\ frames = 1
  /\ run = 1
  /\ emits = 0
  /\ \E ctx \in contexts : textures = BuildTextures(ctx)
  /\ texel = NoTexel

\* The application in a browser that has 2D canvases.
Init == InitWith({"2d"})

\* A frame of the whole application.
Animate == AnimateFrame(MaxFrames)

Next ==
  \/ Animate
  \/ CommitState
  \/ RefEffect
  \/ \E i \in 1..MaxMounts : Detect(i)
  \/ \E i \in 1..MaxMounts : SendDeliver(i)
  \/ \E i \in 1..MaxMounts : SendSettle(i)
  \/ ToggleCamera
  \/ Unmount

\* The whole application.
Spec == Init /\ [][Next]_vars

\* The classifier alone: the estimator hands onResults any Results of the grid.
Classify ==
  /\ \E r \in AllResults : OnResults(r)
  /\ UNCHANGED <<cameraEnabled, systemState, systemStateRef, handsAvailable, hc, mounts,
                 sceneVars, emits, texVars>>

ClassifierSpec == Init /\ [][Classify]_vars

\* The scene alone: SolarSystem under a parent that re-renders it with the other
\* systemState prop at most MaxEmits times, over up to MaxHoldFrames frames.  As
\* in CommitState, the effect of the render before is flushed first.
PropChange ==
  /\ emits < MaxEmits
  /\ emits' = emits + 1
  /\ systemStateRef' = systemState
  /\ systemState' = IF systemState = "normal" THEN "merged" ELSE "normal"
  /\ UNCHANGED <<cameraEnabled, pendingState, handVars, sceneVars, texVars>>

AnimateHold == AnimateFrame(MaxHoldFrames)

SceneNext == PropChange \/ RefEffect \/ AnimateHold

\* The scene is built the same way with or without the Hands class.
SceneInit == Init /\ handsAvailable

SceneSpec == SceneInit /\ [][SceneNext]_vars

\* Scene construction with or without 2D canvases, and the frames after it.
BuildInit == InitWith(CanvasContexts)

BuildNext == PropChange \/ RefEffect \/ Animate

BuildSpec == BuildInit /\ [][BuildNext]_vars

\* The texture synthesizer alone: createPlanetTexture's loop body on any pair of
\* samples of the grid, for a planet of each branch.  Without a context nothing
\* is painted.
PaintTexel ==
  /\ textures.ctx = "2d"
  /\ \E name \in PaintedNames, noiseVal \in NoiseSamples, second \in NoiseSamples :
       texel' = [name |-> name, noiseVal |-> noiseVal, second |-> second,
                 rgb |-> PlanetTexel(name, noiseVal, second)]
  /\ UNCHANGED <<appVars, handVars, sceneVars, emits, textures>>

TextureSpec == Init /\ [][PaintTexel]_vars

\* ------------------------------------------------------------------ claims
\* The finger pairs of the claims, <<tip, PIP>>.
FingerPairs == {<<8, 6>>, <<12, 10>>, <<16, 14>>, <<20, 18>>}

\* The pairs of a landmark set whose tip lies strictly below its PIP (greater y).
PairsClosed(y) == {p \in FingerPairs : y[p[1]] > y[p[2]]}

\* C1: for every result with a landmark set, onResults emits FIST
\* (onGestureChange(true), queueing 'merged') if and only if at least 3 of the
\* 4 finger pairs have tip.y > pip.y; with 0, 1 or 2 such pairs it emits OPEN.
C1_FistIffThreeClosed ==
  results.kind = "hand" =>
    /\ gesture \in {"FIST", "OPEN"}
    /\ gesture = "FIST" <=> Cardinality(PairsClosed(results.y)) >= 3
    /\ pendingState = (IF Cardinality(PairsClosed(results.y)) >= 3 THEN "merged" ELSE "normal")

\* C1 witness: a hand with exactly three closed pairs was classified FIST.
C1_Witness ==
  /\ results.kind = "hand"
  /\ Cardinality(PairsClosed(results.y)) = 3
  /\ gesture = "FIST"

\* C2: whenever a result arrives with no detected hand (multiHandLandmarks
\* missing or empty) the classifier emits OPEN whatever the state was before;
\* the update it queues is 'normal', so a committed 'merged' is replaced by
\* 'normal' at the next render.
C2_NoHandIsOpen ==
  results.kind \in {"missing", "empty"} =>
    /\ gesture = "OPEN"
    /\ sceneMounted =>
         \/ pendingState = "normal"
         \/ pendingState = "none" /\ systemState = "normal"

\* C2 witness: a no-hand result arrived while the committed state was FIST.
C2_Witness ==
  /\ results.kind \in {"missing", "empty"}
  /\ gesture = "OPEN"
  /\ systemState = "merged"
  /\ pendingState = "normal"

\* C3: stopping the camera (cameraEnabled toggled to false, HandController
\* unmounted) forces the gesture state to OPEN: in every state with the camera
\* stopped, systemState is 'normal'.
C3_StoppedCameraIsOpen == ~cameraEnabled => systemState = "normal"

\* C4: after the scene is torn down (the SolarSystem effect cleanup has run)
\* animate is never invoked again: no step runs another frame.
C4_NoFrameAfterTeardown == [][~sceneMounted => frames' = frames]_vars

\* C5: after the HandController cleanup has run, whatever the cleanup
\* interleaved with, no controller that was cleaned up gets a new
\* requestAnimationFrame(detect) scheduled or starts a hands.send.
C5_DetectStoppedAfterCleanup ==
  [][\A i \in 1..MaxMounts :
       hc[i].closed =>
         /\ hc'[i].pc = "raf" => hc[i].pc = "raf"
         /\ hc'[i].pc = "sending" => hc[i].pc = "sending"]_vars

\* A step that runs one frame of animate.
FrameStep == frames' = frames + 1

\* new lies strictly between old and target, when old and target differ.
StrictlyBetween(old, new, target) ==
  /\ old < target => old < new /\ new < target
  /\ old > target => target < new /\ new < old

\* C6: in each frame run under OPEN every orbiting body's angle changes by
\* exactly p.speed * CONFIG.speedFactor (-0.003 rad for Earth, -30 units of
\* 10^-4) and its target position is (cos(angle)*dist, 0, sin(angle)*dist) at
\* the new angle; in each frame run under FIST every angle is left unchanged.
C6_AngleIntegrator ==
  [][FrameStep =>
       \A i \in Bodies :
         IF systemStateRef = "merged"
           THEN groups'[i].angle = groups[i].angle
           ELSE /\ groups'[i].angle - groups[i].angle = PLANETS[i].speed * 3
                /\ groups'[3].angle - groups[3].angle = -30
                /\ groups'[i].targetPos =
                     [x |-> MathCos(groups'[i].angle) * PLANETS[i].dist,
                      y |-> 0,
                      z |-> MathSin(groups'[i].angle) * PLANETS[i].dist]]_vars

\* C6 witness: two OPEN frames moved Earth from angle 0 to -0.006, then a FIST
\* frame left it there.
C6_Witness ==
  /\ frames = 3
  /\ isMerged
  /\ run = 1
  /\ groups[3].angle = -60

\* C7: the first frame that reads FIST after a frame that read OPEN uses the
\* merge targets (sun scale 0.001; every body's position the origin; Earth's
\* scale 6, the others' 0.001), and no value snaps: each smoothed value that
\* differs from its target ends strictly between its old value and the target.
C7_TargetsSwitchValuesDoNot ==
  [][(FrameStep /\ ~isMerged /\ systemStateRef = "merged") =>
       /\ sun'.targetScale = 1000
       /\ StrictlyBetween(sun.scale, sun'.scale, 1000)
       /\ \A i \in Bodies :
            /\ groups'[i].targetPos = [x |-> 0, y |-> 0, z |-> 0]
            /\ groups'[i].targetScale = (IF PLANETS[i].name = "Earth" THEN 6000000 ELSE 1000)
            /\ StrictlyBetween(groups[i].scale, groups'[i].scale, groups'[i].targetScale)
            /\ StrictlyBetween(groups[i].position.x, groups'[i].position.x, 0)
            /\ StrictlyBetween(groups[i].position.y, groups'[i].position.y, 0)
            /\ StrictlyBetween(groups[i].position.z, groups'[i].position.z, 0)]_vars

\* C7 witness: the one FIST frame after OPEN frames took the sun's scale from 1
\* to 0.95005, and Earth's from 1 to 1.25.
C7_Witness ==
  /\ isMerged
  /\ run = 1
  /\ sun.scale = 950050
  /\ groups[3].scale = 1250000

\* C8: in every frame run under FIST, Earth's position is lerped toward the
\* origin and its scale toward 6 with factor 0.05; every other body's position
\* is lerped toward the origin and its scale toward 0.001 with factor 0.1; no
\* orbit target is computed (the angle stays, the target is the origin).
C8_MergeBranch ==
  [][(FrameStep /\ systemStateRef = "merged") =>
       \A i \in Bodies :
         LET g    == groups[i]
             h    == groups'[i]
             inv  == IF i = 3 THEN 20 ELSE 10
             goal == IF i = 3 THEN 6000000 ELSE 1000
         IN  /\ PLANETS[3].name = "Earth"
             /\ h.position.x = g.position.x + ((0 - g.position.x) \div inv)
             /\ h.position.y = g.position.y + ((0 - g.position.y) \div inv)
             /\ h.position.z = g.position.z + ((0 - g.position.z) \div inv)
             /\ h.scale = g.scale + ((goal - g.scale) \div inv)
             /\ h.angle = g.angle
             /\ h.targetPos = [x |-> 0, y |-> 0, z |-> 0]]_vars

\* C8 witness: two frames under FIST: Earth has grown, Mercury has shrunk faster
\* than the 0.05 factor would shrink it.
C8_Witness ==
  /\ isMerged
  /\ run = 2
  /\ groups[3].scale = 1487500
  /\ groups[1].scale = 810190

\* |x - t|.
Gap(x, t) == IF x >= t THEN x - t ELSE t - x

\* The gap to the target is at most a tenth of the gap at the start of the run
\* (25 units of 10^-6 allow for the roundings of the run).
Shrunk(now, start, t) == Gap(now, t) <= Gap(start, t) \div 10 + 25

\* Squared length of a vector, in units of 0.01.
NormSq(p) == (p.x \div 10000) ^ 2 + (p.y \div 10000) ^ 2 + (p.z \div 10000) ^ 2

\* The tolerances of the convergence check: 0.5 on a scale, 2.5 on a distance.
Tol == One \div 2
TolDist == (5 * One) \div 2

\* C9: convergence.  Once ConvFrames consecutive frames have read FIST, every
\* non-Earth body is within TolDist of the origin and its scale within Tol of
\* 0.001, Earth's scale is within Tol of 6 and the sun's within Tol of 0.001;
\* once they have read OPEN, every body's scale and the sun's are within Tol
\* of 1.  Each of these gaps is then at most a tenth of what it was when the run
\* began, so any tolerance is met after finitely many frames.
C9_Converges ==
  run >= ConvFrames =>
    IF isMerged
      THEN /\ Gap(sun.scale, 1000) <= Tol
           /\ Shrunk(sun.scale, runFrom.sun.scale, 1000)
           /\ Gap(groups[3].scale, 6000000) <= Tol
           /\ Shrunk(groups[3].scale, runFrom.groups[3].scale, 6000000)
           /\ \A i \in Bodies \ {3} :
                /\ NormSq(groups[i].position) <= (TolDist \div 10000) ^ 2
                /\ Shrunk(groups[i].position.x, runFrom.groups[i].position.x, 0)
                /\ Shrunk(groups[i].position.z, runFrom.groups[i].position.z, 0)
                /\ Gap(groups[i].scale, 1000) <= Tol
                /\ Shrunk(groups[i].scale, runFrom.groups[i].scale, 1000)
      ELSE /\ Gap(sun.scale, 1000000) <= Tol
           /\ Shrunk(sun.scale, runFrom.sun.scale, 1000000)
           /\ \A i \in Bodies :
                /\ Gap(groups[i].scale, 1000000) <= Tol
                /\ Shrunk(groups[i].scale, runFrom.groups[i].scale, 1000000)

\* C9 witness: ConvFrames frames under FIST, begun with every scale at 1 or
\* near it: Earth has grown past 5.5.
C9_Witness ==
  /\ run >= ConvFrames
  /\ isMerged
  /\ runFrom.groups[3].scale < 2000000
  /\ groups[3].scale > 5500000

\* Squared distance between two positions, in units of 0.01.
DistSq(p, q) ==
  NormSq([x |-> p.x - q.x, y |-> p.y - q.y, z |-> p.z - q.z])

\* A frame that reads OPEN after a frame that read OPEN.
HeldOpenStep == FrameStep /\ ~isMerged /\ systemStateRef = "normal"

\* new is no further from target than old and not beyond it.
NoOvershoot(old, new, target) ==
  /\ old <= target => old <= new /\ new <= target
  /\ old >= target => target <= new /\ new <= old

\* C10 as claimed: with the state held at OPEN, no body's distance to the
\* frame's orbit target grows from one frame to the next, and no smoothing
\* step overshoots its target.
C10_DistanceNeverGrows ==
  [][HeldOpenStep =>
       \A i \in Bodies :
         /\ DistSq(groups'[i].position, groups'[i].targetPos)
              <= DistSq(groups[i].position, groups[i].targetPos)
         /\ NoOvershoot(groups[i].position.x, groups'[i].position.x, groups'[i].targetPos.x)
         /\ NoOvershoot(groups[i].position.z, groups'[i].position.z, groups'[i].targetPos.z)]_vars

\* C10 amended: with the state held at OPEN, each frame's smoothing step moves
\* every body toward that frame's orbit target without overshooting it: on each
\* axis the new position lies between the old one and the target, and the gap
\* to that target falls by a twentieth (to 0.95 of what it was before the step).
C10_StepTowardFrameTarget ==
  [][HeldOpenStep =>
       \A i \in Bodies :
         LET g == groups[i]
             h == groups'[i]
             t == h.targetPos
         IN  /\ NoOvershoot(g.position.x, h.position.x, t.x)
             /\ NoOvershoot(g.position.z, h.position.z, t.z)
             /\ h.position.y = 0
             /\ Gap(g.position.x, t.x) - Gap(h.position.x, t.x)
                  \in {Gap(g.position.x, t.x) \div 20, Gap(g.position.x, t.x) \div 20 + 1}
             /\ Gap(g.position.z, t.z) - Gap(h.position.z, t.z)
                  \in {Gap(g.position.z, t.z) \div 20, Gap(g.position.z, t.z) \div 20 + 1}]_vars

\* C10 witness: three frames in a row read OPEN and Earth trails its target by
\* more than it did after the first.
C10_Witness ==
  /\ ~isMerged
  /\ run >= 3
  /\ frames = run
  /\ DistSq(groups[3].position, groups[3].targetPos) > 1000

\* x moved toward t by 1/inv of the gap between them.
Blend(x, t, inv) == x + ((t - x) \div inv)

\* The largest magnitude a finite scene number is allowed here: 1000.0.
Huge == 1000 * One

\* x is a number, and a finite one.
Finite(x) == x \in Int /\ -Huge <= x /\ x <= Huge

\* C11: under any sequence of OPEN and FIST frames, switched before convergence
\* or not, every frame computes each body's position and scale, the sun's scale
\* and the orbit opacity from the value the frame before left (one smoothing
\* step from it toward the frame's target), and every one of them is a finite
\* number in every reachable state.
C11_SmoothingFromLastValue ==
  /\ [](/\ Finite(sun.scale)
        /\ Finite(orbitOpacity)
        /\ \A i \in Bodies :
             /\ Finite(groups[i].position.x)
             /\ Finite(groups[i].position.y)
             /\ Finite(groups[i].position.z)
             /\ Finite(groups[i].scale))
  /\ [][FrameStep =>
         LET merged == systemStateRef = "merged"
         IN  /\ sun'.scale = Blend(sun.scale, IF merged THEN 1000 ELSE 1000000, 20)
             /\ orbitOpacity' = (19 * orbitOpacity + (IF merged THEN 0 ELSE 200000)) \div 20
             /\ \A i \in Bodies :
                  LET g   == groups[i]
                      h   == groups'[i]
                      inv == IF merged /\ i # 3 THEN 10 ELSE 20
                  IN  /\ h.position.x = Blend(g.position.x, h.targetPos.x, inv)
                      /\ h.position.y = Blend(g.position.y, h.targetPos.y, inv)
                      /\ h.position.z = Blend(g.position.z, h.targetPos.z, inv)
                      /\ h.scale = Blend(g.scale, h.targetScale, inv)]_vars

\* C11 witness: the frames read OPEN, FIST, OPEN: Earth's scale went 1, 1.25,
\* 1.2375, each step taken from the value before, far from either target.
C11_Witness ==
  /\ frames = 3
  /\ ~isMerged
  /\ run = 1
  /\ groups[3].scale = 1237500

\* C12: after every frame the sun's glow sprite is visible if and only if the
\* state read in that frame is not FIST, switched at once, and the frame has
\* lerped the sun's scale with factor 0.05 toward 0.001 under FIST and toward 1
\* under OPEN.
C12_SunGlowAndScale ==
  /\ [](sun.spriteVisible <=> ~isMerged)
  /\ [][FrameStep =>
         /\ sun'.spriteVisible <=> systemStateRef # "merged"
         /\ sun'.scale =
              sun.scale + (((IF systemStateRef = "merged" THEN 1000 ELSE 1000000) - sun.scale) \div 20)]_vars

\* C12 witness: a frame under FIST, then one under OPEN: the glow is back at
\* once while the sun's scale, 0.95005 after the FIST frame, is still 0.952547.
C12_Witness ==
  /\ frames = 3
  /\ ~isMerged
  /\ run = 1
  /\ sun.spriteVisible
  /\ sun.scale = 952547

\* C13: in every frame the orbit opacity is lerped with factor 0.05 toward 0
\* under FIST and toward 0.2 under OPEN, a function of the old opacity and the
\* state alone; built at 0.2, it lies within [0, 0.2] in every reachable state.
C13_OrbitOpacity ==
  /\ [](0 <= orbitOpacity /\ orbitOpacity <= 200000)
  /\ [][FrameStep =>
         orbitOpacity' =
           IF systemStateRef = "merged"
             THEN (19 * orbitOpacity) \div 20
             ELSE (19 * orbitOpacity + 200000) \div 20]_vars

\* C13 witness: forty frames under FIST have faded the orbits below 0.03, and
\* they are still visible.
C13_Witness ==
  /\ isMerged
  /\ run >= 40
  /\ orbitOpacity < 30000
  /\ orbitOpacity > 0

\* C14: motion is planar: in every reachable state every body's position and
\* target position have y = 0.
C14_Planar ==
  \A i \in Bodies : groups[i].position.y = 0 /\ groups[i].targetPos.y = 0

\* C14 witness: after OPEN and FIST frames Earth is off the x axis, on its way
\* to the origin, and still in the plane.
C14_Witness ==
  /\ isMerged
  /\ frames >= 3
  /\ groups[3].position.z # 0
  /\ groups[3].position.x # 0
  /\ groups[3].position.y = 0
  /\ groups[3].targetPos = [x |-> 0, y |-> 0, z |-> 0]

PairsLevel(y) == {p \in FingerPairs : y[p[1]] = y[p[2]]}

\* C16: a finger whose tip y equals its PIP y counts as open: FIST needs three
\* strictly closed pairs however many pairs are level, and a hand with two
\* strictly closed fingers and the other two level is classified OPEN.
C16_TieCountsAsOpen ==
  results.kind = "hand" =>
    /\ gesture = "FIST" => Cardinality(PairsClosed(results.y)) >= 3
    /\ (Cardinality(PairsClosed(results.y)) < 3 /\ Cardinality(PairsLevel(results.y)) > 0)
         => gesture = "OPEN" /\ pendingState = "normal"
    /\ (Cardinality(PairsClosed(results.y)) = 2 /\ Cardinality(PairsLevel(results.y)) = 2)
         => gesture = "OPEN" /\ pendingState = "normal"

\* C16 witness: index and middle finger strictly closed, ring and pinky level
\* with their PIP joints, classified OPEN.
C16_Witness ==
  /\ results.kind = "hand"
  /\ PairsClosed(results.y) = {<<8, 6>>, <<12, 10>>}
  /\ PairsLevel(results.y) = {<<16, 14>>, <<20, 18>>}
  /\ gesture = "OPEN"

\* A hand with an undefined landmark entry, a NaN y or a y outside [0, 1].
Malformed(r) ==
  /\ r.kind = "hand"
  /\ \/ r.absent # {}
     \/ r.nan # {}
     \/ \E k \in LandmarkIdx : r.y[k] < 0 \/ r.y[k] > 1

\* The pairs of a hand whose comparison tip.y > pip.y is true in JavaScript.
PairsTrue(r) == {p \in PairsClosed(r.y) : p[1] \notin r.nan /\ p[2] \notin r.nan}

\* C17: a malformed hand never aborts the loop.  The step that delivers one
\* either ignores it (an undefined entry among the eight landmarks read: the
\* gesture and the queued update stay) or classifies it to OPEN or FIST by the
\* comparisons that are true; the state is 'normal' or 'merged' throughout; and
\* the send that delivered it settles, after which detect has requested its
\* next frame.
C17_MalformedDoesNotAbort ==
  /\ [](/\ gesture \in {"none", "OPEN", "FIST"}
        /\ systemState \in {"normal", "merged"}
        /\ pendingState \in {"none", "normal", "merged"}
        /\ \A i \in 1..MaxMounts : hc[i].pc = "delivered" => ENABLED SendSettle(i))
  /\ [][\A i \in 1..MaxMounts :
          /\ (hc[i].pc = "sending" /\ hc'[i].pc = "delivered" /\ Malformed(results')) =>
               IF results'.absent \cap {6, 8, 10, 12, 14, 16, 18, 20} # {}
                 THEN gesture' = gesture /\ pendingState' = pendingState
                 ELSE gesture' = (IF Cardinality(PairsTrue(results')) >= 3 THEN "FIST" ELSE "OPEN")
          /\ (hc[i].pc = "delivered" /\ hc'[i].pc # "delivered") => hc'[i].pc = "raf"]_vars

\* C17 witness: after a fist, a hand with the index tip's entry undefined was
\* delivered; the gesture is still FIST and detect has requested its next
\* frame.
C17_Witness ==
  /\ results.kind = "hand"
  /\ results.absent = {8}
  /\ gesture = "FIST"
  /\ hc[1].pc = "raf"
  /\ hc[1].mounted

\* C18: when no 2D context can be created, the glow, planet and ring
\* synthesizers each return an empty THREE.Texture (none throws), and the scene
\* is built all the same: eight planet groups, the frame loop started.
C18_TextureFallback ==
  textures.ctx = "null" =>
    /\ textures.glow = "Texture"
    /\ \A i \in Bodies : textures.planet[i] = "Texture"
    /\ DOMAIN textures.ring = {6}
    /\ textures.ring[6] = "Texture"
    /\ DOMAIN groups = 1..8
    /\ frames >= 1

\* C18 witness: a scene built without a 2D context, still mounted, has run
\* three frames on its empty textures.
C18_Witness ==
  /\ textures.ctx = "null"
  /\ textures.planet[3] = "Texture"
  /\ sceneMounted
  /\ frames >= 3

\* C19: at an Earth texel with no cloud (cloud sample <= 0.5) the colour is
\* land green (40,140,60) if and only if the base sample is strictly greater
\* than 0.15, and water blue (10,40,120) otherwise; with a cloud sample
\* strictly greater than 0.5 the texel is white whatever the base sample.
C19_EarthTexel ==
  texel.name = "Earth" =>
    /\ texel.second > 50 => texel.rgb = <<255, 255, 255>>
    /\ texel.second <= 50 =>
         /\ texel.rgb \in {<<40, 140, 60>>, <<10, 40, 120>>}
         /\ texel.rgb = <<40, 140, 60>> <=> texel.noiseVal > 15

\* C19 witness: base sample 0.2 (land) and cloud sample 0.6: white.
C19_Witness ==
  /\ texel.name = "Earth"
  /\ texel.noiseVal = 20
  /\ texel.second = 60
  /\ texel.rgb = <<255, 255, 255>>

\* C20: every frame reads, in systemStateRef.current, the value of the most
\* recent onGestureChange call ('normal' before the first): no frame reads a
\* state older than the latest classification.
C20_FrameReadsLatestGesture ==
  [][FrameStep => systemStateRef = (IF gesture = "FIST" THEN "merged" ELSE "normal")]_vars

\* The hand r with its thumb tip moved to y = t.
ThumbAt(r, t) == [r EXCEPT !.y[4] = t]

\* C21: classification has no memory and ignores the thumb.  In every step
\* that classifies a hand, whatever the gesture and the queued update were
\* before, the value emitted is FIST exactly when three of the four pairs of
\* this frame have tip.y > pip.y, and it is the value of every hand that has
\* the same eight y coordinates and another thumb.
C21_MemorylessNoThumb ==
  [][results'.kind = "hand" =>
       /\ gesture' = (IF Cardinality(PairsClosed(results'.y)) >= 3 THEN "FIST" ELSE "OPEN")
       /\ pendingState' = (IF Cardinality(PairsClosed(results'.y)) >= 3 THEN "merged" ELSE "normal")
       /\ \A t \in YValues : isFist(ThumbAt(results', t)) <=> gesture' = "FIST"]_vars

\* C21 witness: a hand with two closed fingers and the thumb tip below the PIP
\* joints of the two open ones (a third closed finger, were the thumb one) was
\* classified OPEN.
C21_Witness ==
  /\ results.kind = "hand"
  /\ results.y[4] = 1
  /\ PairsClosed(results.y) = {<<8, 6>>, <<12, 10>>}
  /\ results.y[14] = 0
  /\ results.y[18] = 0
  /\ gesture = "OPEN"
  /\ pendingState = "normal"

\* C22: every HandController's detect loop, mounted or not, has at most one
\* hands.send unsettled and at most one requestAnimationFrame(detect) pending,
\* and never both.  A frame is requested only with no send unsettled, and every
\* send that settles, resolved or thrown and caught, leaves the next frame
\* requested.
C22_OneSendOneFrame ==
  /\ [](\A i \in 1..MaxMounts :
          /\ hc[i].rafs \in {0, 1}
          /\ hc[i].sends \in {0, 1}
          /\ hc[i].rafs + hc[i].sends <= 1
          /\ hc[i].mounted /\ handsAvailable => hc[i].rafs + hc[i].sends = 1)
  /\ [][\A i \in 1..MaxMounts :
          /\ hc'[i].rafs > hc[i].rafs => hc'[i].sends = 0
          /\ hc'[i].sends < hc[i].sends => hc'[i].rafs = 1]_vars

\* C22 witness: the send that delivered a hand with an undefined entry threw
\* and was caught; detect went on, and its next send is now in flight with no
\* frame pending.
C22_Witness ==
  /\ results.absent = {8}
  /\ hc[1].mounted
  /\ hc[1].pc = "sending"
  /\ hc[1].sends = 1
  /\ hc[1].rafs = 0

\* |x|.
Abs(x) == IF x >= 0 THEN x ELSE -x

\* (|p| / dist)^2 for body i at position p, in units of 10^-6.
RelDistSq(i, p) ==
  LET u == Abs(p.x) \div PLANETS[i].dist
      w == Abs(p.z) \div PLANETS[i].dist
  IN  MulFix(u, u) + MulFix(w, w)

\* C23: under any sequence of OPEN and FIST frames the smoothed values stay in
\* the range their start value and targets span: the sun's scale in [0.001, 1],
\* Earth's scale in [1, 6], every other body's scale in [0.001, 1], and no body
\* further from the origin than its orbital distance: no coordinate beyond it,
\* and the squared distance over the squared orbital distance at most 1, to
\* the two units of 10^-6 the fixed-point sine and cosine are exact to.
C23_ValuesInRange ==
  /\ 1000 <= sun.scale
  /\ sun.scale <= 1000000
  /\ \A i \in Bodies :
       /\ (IF i = 3 THEN 1000000 ELSE 1000) <= groups[i].scale
       /\ groups[i].scale <= (IF i = 3 THEN 6000000 ELSE 1000000)
       /\ Abs(groups[i].position.x) <= PLANETS[i].dist * 1000000
       /\ Abs(groups[i].position.z) <= PLANETS[i].dist * 1000000
       /\ groups[i].position.y = 0
       /\ RelDistSq(i, groups[i].position) <= 1000000 + 2

\* C23 witness: on the way back from a long FIST (Earth had passed scale 4)
\* ten OPEN frames on, Earth is still larger than 1 and Mercury, smaller than
\* 1, is inside its orbit.
C23_Witness ==
  /\ ~isMerged
  /\ run >= 10
  /\ runFrom.groups[3].scale > 4000000
  /\ groups[3].scale > 1000000
  /\ groups[1].scale < 1000000
  /\ groups[1].scale > 1000
  /\ RelDistSq(1, groups[1].position) < 990000

====
